---- MODULE Spec2Model ----
(***************************************************************************)
(* Point-in-polygon feature index of lib/geo.py.                           *)
(*                                                                         *)
(* Coordinates are doubles in the program.  The model takes them on a      *)
(* binary grid: a coordinate is an integer k standing for k * 2^-scale     *)
(* degrees.  Sums, differences and products of such values are exact in    *)
(* double precision, so integer arithmetic on k is the program's           *)
(* arithmetic.  The two tolerances of the program are carried to the grid: *)
(*   epsilon = 1e-9 of _point_on_segment compares with a cross product in  *)
(*   units of 2^-(2*scale), see CrossTol;                                  *)
(*   1e-12 added to the ray-casting denominator is below one grid unit at  *)
(*   every scale used here, see x_lt_x_at_y.                               *)
(* scale = 0 is a whole-degree grid, where the tolerance admits no grid    *)
(* point off a segment; scale = 15 is a grid of 2^-15 degree, where a      *)
(* cross product of one unit (9.3e-10) is within epsilon.                  *)
(***************************************************************************)
EXTENDS Integers, Sequences, FiniteSets, TLC

VARIABLES scale,     \* grid exponent of the coordinates of this run
          input,     \* the feature records handed to GeoFeatureIndex(...)
          pc,        \* "new", "ready" (constructed), "looked" (a lookup
                     \* has returned) or "raised" (__init__ raised)
          features,  \* self.features
          error,     \* the exception that left __init__, "" when none
          query,     \* argument of the latest lookup
          result,    \* return value of the latest lookup
          shape,     \* polygon handed to the geometry primitives
          probe,     \* point handed to the geometry primitives
          verdict,   \* what the primitives returned for (probe, shape)
          history,   \* the lookups made so far: point and return value
          threads    \* the lookups in progress, one per thread

vars == <<scale, input, pc, features, error, query, result,
          shape, probe, verdict, history, threads>>

(***************************************************************************)
(* Bounds of the model.                                                    *)
(***************************************************************************)
MaxFeatures == 2     \* longest input feature collection
MaxLookups == 3      \* longest recorded sequence of lookups
GridMax == 2         \* vertices of the enumerated triangles lie in 0..GridMax

(***************************************************************************)
(* Program constants.                                                      *)
(***************************************************************************)
EpsilonDen == 1000000000      \* epsilon = 1e-9 = 1 / EpsilonDen
Inf == 1000000                \* float("inf"): above every coordinate used

\* Grid exponents of the runs: whole degrees, and 2^-15 degree.
Scales == {0, 15}
FineScale == CHOOSE s \in Scales : s > 0

Abs(n) == IF n < 0 THEN -n ELSE n
Min(a, b) == IF a < b THEN a ELSE b
Max(a, b) == IF a > b THEN a ELSE b

\* Largest integer cross product, in units of 2^-(2*s), that abs(cross) >
\* epsilon does not reject: c * 2^-(2*s) <= 1e-9  <=>  c <= 2^(2*s) / 1e9.
CrossTol(s) == (2 ^ (2 * s)) \div EpsilonDen

(***************************************************************************)
(* _point_on_segment(point, a, b, epsilon=1e-9)                            *)
(***************************************************************************)
_point_on_segment(point, a, b, s) ==
    LET x == point[1]  y == point[2]
        x1 == a[1]  y1 == a[2]
        x2 == b[1]  y2 == b[2]
        cross == (x - x1) * (y2 - y1) - (y - y1) * (x2 - x1)
        dot == (x - x1) * (x2 - x1) + (y - y1) * (y2 - y1)
        squared_len == (x2 - x1) * (x2 - x1) + (y2 - y1) * (y2 - y1)
    IN  IF Abs(cross) > CrossTol(s) THEN FALSE
        ELSE IF dot < 0 THEN FALSE
        ELSE IF dot > squared_len THEN FALSE
        ELSE TRUE

(***************************************************************************)
(* x < x_at_y with x_at_y = (x2 - x1) * (y - y1) / (y2 - y1 + 1e-12) + x1, *)
(* evaluated only when y1 # y2.  With a = x - x1, n = (x2-x1)*(y-y1),      *)
(* dy = y2 - y1 a non-zero integer and 0 < e < 1/|a| the 1e-12 in grid     *)
(* units, dy + e has the sign of dy and                                    *)
(*   a < n / (dy + e)  <=>  a*dy + a*e < n   (dy > 0)                      *)
(*                     <=>  a*dy + a*e > n   (dy < 0)                      *)
(* where |a*e| < 1 decides only the case a*dy = n.                         *)
(***************************************************************************)
x_lt_x_at_y(x, y, x1, y1, x2, y2) ==
    LET a == x - x1
        dy == y2 - y1
        n == (x2 - x1) * (y - y1)
    IN  IF dy > 0
        THEN (a * dy < n) \/ (a * dy = n /\ a < 0)
        ELSE (a * dy > n) \/ (a * dy = n /\ a > 0)

(***************************************************************************)
(* _point_in_ring(point, ring): the loop over range(len(ring)), from       *)
(* index i (1-based) with the running value of inside.                     *)
(***************************************************************************)
RECURSIVE ring_scan(_, _, _, _, _)
ring_scan(point, ring, i, inside, s) ==
    IF i > Len(ring) THEN inside
    ELSE LET x == point[1]  y == point[2]
             p1 == ring[i]
             p2 == ring[(i % Len(ring)) + 1]
             x1 == p1[1]  y1 == p1[2]
             x2 == p2[1]  y2 == p2[2]
             intersects == (y1 > y) # (y2 > y)
         IN  IF _point_on_segment(point, p1, p2, s) THEN TRUE
             ELSE IF intersects /\ x_lt_x_at_y(x, y, x1, y1, x2, y2)
                  THEN ring_scan(point, ring, i + 1, ~inside, s)
                  ELSE ring_scan(point, ring, i + 1, inside, s)

\* _point_in_ring without the len(ring) < 3 return
_point_in_ring_unguarded(point, ring, s) ==
    ring_scan(point, ring, 1, FALSE, s)

_point_in_ring(point, ring, s) ==
    IF Len(ring) < 3 THEN FALSE
    ELSE ring_scan(point, ring, 1, FALSE, s)

(***************************************************************************)
(* point_in_polygon(point, polygon): the loop over polygon[1:], from hole  *)
(* index i (1-based position in polygon).                                  *)
(***************************************************************************)
RECURSIVE hole_scan(_, _, _, _)
hole_scan(point, polygon, i, s) ==
    IF i > Len(polygon) THEN TRUE
    ELSE IF _point_in_ring(point, polygon[i], s) THEN FALSE
    ELSE hole_scan(point, polygon, i + 1, s)

\* point_in_polygon that tests the outer ring only
point_in_polygon_outer_only(point, polygon, s) ==
    IF Len(polygon) = 0 THEN FALSE
    ELSE _point_in_ring(point, polygon[1], s)

point_in_polygon(point, polygon, s) ==
    IF Len(polygon) = 0 THEN FALSE
    ELSE IF ~_point_in_ring(point, polygon[1], s) THEN FALSE
    ELSE hole_scan(point, polygon, 2, s)

(***************************************************************************)
(* polygon_bbox(polygons): running (min_x, min_y, max_x, max_y) over every *)
(* point of every ring of every polygon.                                   *)
(***************************************************************************)
RECURSIVE bbox_points(_, _, _)
bbox_points(ring, k, box) ==
    IF k > Len(ring) THEN box
    ELSE bbox_points(ring, k + 1,
                     <<Min(box[1], ring[k][1]), Min(box[2], ring[k][2]),
                       Max(box[3], ring[k][1]), Max(box[4], ring[k][2])>>)

RECURSIVE bbox_rings(_, _, _)
bbox_rings(polygon, j, box) ==
    IF j > Len(polygon) THEN box
    ELSE bbox_rings(polygon, j + 1, bbox_points(polygon[j], 1, box))

RECURSIVE bbox_polygons(_, _, _)
bbox_polygons(polygons, i, box) ==
    IF i > Len(polygons) THEN box
    ELSE bbox_polygons(polygons, i + 1, bbox_rings(polygons[i], 1, box))

\* polygon_bbox over the first polygon only
polygon_bbox_first_only(polygons) ==
    IF Len(polygons) = 0 THEN <<Inf, Inf, -Inf, -Inf>>
    ELSE bbox_rings(polygons[1], 1, <<Inf, Inf, -Inf, -Inf>>)

\* polygon_bbox whose running bounds start at the origin
polygon_bbox_from_origin(polygons) == bbox_polygons(polygons, 1, <<0, 0, 0, 0>>)

polygon_bbox(polygons) == bbox_polygons(polygons, 1, <<Inf, Inf, -Inf, -Inf>>)

(***************************************************************************)
(* Python values of the input records.  A coordinate component is a number *)
(* or a value float() rejects; a properties value is a dict or None.       *)
(***************************************************************************)
Num(n) == <<"num", n>>
NonNumericStr == <<"str", 0>>     \* a string such as "abc"
NoneComponent == <<"none", 0>>    \* None (JSON null)

PyNone == [tag |-> "None", items |-> {}]
PyDict(items) == [tag |-> "dict", items |-> items]

\* float that turns every value it cannot convert into 0.0
float_lenient(c) ==
    IF c[1] = "num" THEN [error |-> "", value |-> c[2]]
    ELSE [error |-> "", value |-> 0]

\* float(c): the number, ValueError for a non-numeric string, TypeError
\* for None.
float(c) ==
    IF c[1] = "num" THEN [error |-> "", value |-> c[2]]
    ELSE IF c[1] = "str" THEN [error |-> "ValueError", value |-> 0]
    ELSE [error |-> "TypeError", value |-> 0]

\* (float(x), float(y)) for x, y in ring: one entry.  Unpacking into x, y
\* needs exactly two components.
convert_entry(entry) ==
    IF Len(entry) # 2 THEN [error |-> "ValueError", value |-> <<>>]
    ELSE LET fx == float(entry[1])
             fy == float(entry[2])
         IN  IF fx.error # "" THEN [error |-> fx.error, value |-> <<>>]
             ELSE IF fy.error # "" THEN [error |-> fy.error, value |-> <<>>]
             ELSE [error |-> "", value |-> <<fx.value, fy.value>>]

\* [(float(x), float(y)) for x, y in ring]
RECURSIVE convert_ring(_, _, _)
convert_ring(ring, k, acc) ==
    IF k > Len(ring) THEN [error |-> "", value |-> acc]
    ELSE LET e == convert_entry(ring[k])
         IN  IF e.error # "" THEN [error |-> e.error, value |-> <<>>]
             ELSE convert_ring(ring, k + 1, Append(acc, e.value))

\* [[...] for ring in coords] that puts each ring before the earlier ones
RECURSIVE convert_rings_reversed(_, _, _)
convert_rings_reversed(rings, j, acc) ==
    IF j > Len(rings) THEN [error |-> "", value |-> acc]
    ELSE LET r == convert_ring(rings[j], 1, <<>>)
         IN  IF r.error # "" THEN [error |-> r.error, value |-> <<>>]
             ELSE convert_rings_reversed(rings, j + 1, <<r.value>> \o acc)

\* [[...] for ring in coords]
RECURSIVE convert_rings(_, _, _)
convert_rings(rings, j, acc) ==
    IF j > Len(rings) THEN [error |-> "", value |-> acc]
    ELSE LET r == convert_ring(rings[j], 1, <<>>)
         IN  IF r.error # "" THEN [error |-> r.error, value |-> <<>>]
             ELSE convert_rings(rings, j + 1, Append(acc, r.value))

\* for polygon in coords: polygons.append([...])
RECURSIVE convert_multi(_, _, _)
convert_multi(coords, i, acc) ==
    IF i > Len(coords) THEN [error |-> "", value |-> acc]
    ELSE LET p == convert_rings(coords[i], 1, <<>>)
         IN  IF p.error # "" THEN [error |-> p.error, value |-> <<>>]
             ELSE convert_multi(coords, i + 1, Append(acc, p.value))

(***************************************************************************)
(* extract_polygons(geometry).  A geometry is a dict: has_type and         *)
(* has_coordinates tell whether .get() finds a value that is not None.     *)
(***************************************************************************)
\* extract_polygons that raises for a geometry type it does not support
extract_polygons_strict(geometry) ==
    IF ~geometry.has_type \/ geometry.type = "" \/ ~geometry.has_coordinates
    THEN [error |-> "", value |-> <<>>]
    ELSE IF geometry.type = "Polygon"
    THEN LET p == convert_rings(geometry.coordinates, 1, <<>>)
         IN  IF p.error # "" THEN [error |-> p.error, value |-> <<>>]
             ELSE [error |-> "", value |-> <<p.value>>]
    ELSE IF geometry.type = "MultiPolygon"
    THEN convert_multi(geometry.coordinates, 1, <<>>)
    ELSE [error |-> "ValueError", value |-> <<>>]

extract_polygons(geometry) ==
    IF ~geometry.has_type \/ geometry.type = "" \/ ~geometry.has_coordinates
    THEN [error |-> "", value |-> <<>>]
    ELSE IF geometry.type = "Polygon"
    THEN LET p == convert_rings(geometry.coordinates, 1, <<>>)
         IN  IF p.error # "" THEN [error |-> p.error, value |-> <<>>]
             ELSE [error |-> "", value |-> <<p.value>>]
    ELSE IF geometry.type = "MultiPolygon"
    THEN convert_multi(geometry.coordinates, 1, <<>>)
    ELSE [error |-> "", value |-> <<>>]

(***************************************************************************)
(* GeoFeatureIndex.__init__(features): the loop over the records, from     *)
(* record i with the features appended so far.  A record is a dict:        *)
(* has_geometry tells whether feature.get("geometry") is truthy,           *)
(* has_properties whether the key "properties" is present.                 *)
(***************************************************************************)
EmptyGeometry ==
    [has_type |-> FALSE, type |-> "", has_coordinates |-> FALSE,
     coordinates |-> <<>>]

GeoFeature(bbox, polygons, properties) ==
    [bbox |-> bbox, polygons |-> polygons, properties |-> properties]

\* __init__ that skips a record whose extraction raises
RECURSIVE init_loop_skip_errors(_, _, _)
init_loop_skip_errors(records, i, acc) ==
    IF i > Len(records) THEN [error |-> "", features |-> acc]
    ELSE LET feature == records[i]
             geometry == IF feature.has_geometry THEN feature.geometry
                         ELSE EmptyGeometry
             polygons == extract_polygons(geometry)
         IN  IF polygons.error # "" \/ Len(polygons.value) = 0
             THEN init_loop_skip_errors(records, i + 1, acc)
             ELSE init_loop_skip_errors(records, i + 1,
                      Append(acc,
                          GeoFeature(polygon_bbox(polygons.value),
                                     polygons.value,
                                     IF feature.has_properties
                                     THEN feature.properties
                                     ELSE PyDict({}))))

RECURSIVE init_loop(_, _, _)
init_loop(records, i, acc) ==
    IF i > Len(records) THEN [error |-> "", features |-> acc]
    ELSE LET feature == records[i]
             geometry == IF feature.has_geometry THEN feature.geometry
                         ELSE EmptyGeometry
             polygons == extract_polygons(geometry)
         IN  IF polygons.error # ""
             THEN [error |-> polygons.error, features |-> <<>>]
             ELSE IF Len(polygons.value) = 0
             THEN init_loop(records, i + 1, acc)
             ELSE init_loop(records, i + 1,
                      Append(acc,
                          GeoFeature(polygon_bbox(polygons.value),
                                     polygons.value,
                                     IF feature.has_properties
                                     THEN feature.properties
                                     ELSE PyDict({}))))

(***************************************************************************)
(* GeoFeatureIndex.lookup(point)                                           *)
(***************************************************************************)
RECURSIVE any_polygon(_, _, _, _)
any_polygon(point, polygons, j, s) ==
    IF j > Len(polygons) THEN FALSE
    ELSE IF point_in_polygon(point, polygons[j], s) THEN TRUE
    ELSE any_polygon(point, polygons, j + 1, s)

outside_bbox(point, bbox) ==
    \/ point[1] < bbox[1]
    \/ point[1] > bbox[3]
    \/ point[2] < bbox[2]
    \/ point[2] > bbox[4]

\* lookup whose miss is an empty mapping instead of None
RECURSIVE lookup_scan_empty_miss(_, _, _, _)
lookup_scan_empty_miss(fs, i, point, s) ==
    IF i > Len(fs) THEN PyDict({})
    ELSE IF outside_bbox(point, fs[i].bbox)
    THEN lookup_scan_empty_miss(fs, i + 1, point, s)
    ELSE IF any_polygon(point, fs[i].polygons, 1, s)
    THEN fs[i].properties
    ELSE lookup_scan_empty_miss(fs, i + 1, point, s)

RECURSIVE lookup_scan(_, _, _, _)
lookup_scan(fs, i, point, s) ==
    IF i > Len(fs) THEN PyNone
    ELSE IF outside_bbox(point, fs[i].bbox)
    THEN lookup_scan(fs, i + 1, point, s)
    ELSE IF any_polygon(point, fs[i].polygons, 1, s)
    THEN fs[i].properties
    ELSE lookup_scan(fs, i + 1, point, s)

\* lookup that keeps scanning and returns the last matching feature
RECURSIVE lookup_scan_last(_, _, _, _, _)
lookup_scan_last(fs, i, point, s, found) ==
    IF i > Len(fs) THEN found
    ELSE IF outside_bbox(point, fs[i].bbox)
    THEN lookup_scan_last(fs, i + 1, point, s, found)
    ELSE IF any_polygon(point, fs[i].polygons, 1, s)
    THEN lookup_scan_last(fs, i + 1, point, s, fs[i].properties)
    ELSE lookup_scan_last(fs, i + 1, point, s, found)

lookup_last(fs, point, s) == lookup_scan_last(fs, 1, point, s, PyNone)

lookup(fs, point, s) == lookup_scan(fs, 1, point, s)

(***************************************************************************)
(* Input records of the runs.                                              *)
(***************************************************************************)
Pt(xy) == <<Num(xy[1]), Num(xy[2])>>
RawRing(pts) == [k \in 1..Len(pts) |-> Pt(pts[k])]
RawRings(rings) == [j \in 1..Len(rings) |-> RawRing(rings[j])]

Square(x0, y0, x1, y1) == <<<<x0, y0>>, <<x1, y0>>, <<x1, y1>>, <<x0, y1>>>>

Geometry(type, coordinates) ==
    [has_type |-> TRUE, type |-> type, has_coordinates |-> TRUE,
     coordinates |-> coordinates]

Named(name) == PyDict({<<"name", name>>})

Record(geometry, properties) ==
    [has_geometry |-> TRUE, geometry |-> geometry,
     has_properties |-> TRUE, properties |-> properties]

NorthRing == Square(0, 0, 10, 10)
SouthRing == <<<<0, -10>>, <<10, -10>>, <<10, 0>>, <<0, 0>>>>
OverRing == Square(5, 5, 12, 12)
HoleRing == Square(4, 4, 6, 6)
TinyRing == <<<<0, 0>>, <<1, 0>>, <<1, -1>>, <<0, -1>>>>
LowSquare == Square(0, 0, 2, 2)
HighSquare == Square(10, 10, 12, 12)

North == Record(Geometry("Polygon", RawRings(<<NorthRing>>)), Named("North"))
South == Record(Geometry("Polygon", RawRings(<<SouthRing>>)), Named("South"))
Over == Record(Geometry("Polygon", RawRings(<<OverRing>>)), Named("Over"))
Holed == Record(Geometry("Polygon", RawRings(<<NorthRing, HoleRing>>)),
                Named("Holed"))
Tiny == Record(Geometry("Polygon", RawRings(<<TinyRing>>)), Named("Tiny"))
Multi == Record(Geometry("MultiPolygon",
                         <<RawRings(<<LowSquare>>), RawRings(<<HighSquare>>)>>),
                Named("Multi"))
\* geometry the index does not support, or that is absent
PointGeom == Record(Geometry("Point", Pt(<<5, 5>>)), Named("Point"))
NoType == Record([has_type |-> FALSE, type |-> "", has_coordinates |-> TRUE,
                  coordinates |-> RawRings(<<NorthRing>>)], Named("NoType"))
NoCoords == Record([has_type |-> TRUE, type |-> "Polygon",
                    has_coordinates |-> FALSE, coordinates |-> <<>>],
                   Named("NoCoords"))
NoGeometry == [has_geometry |-> FALSE, geometry |-> EmptyGeometry,
               has_properties |-> TRUE, properties |-> Named("NoGeometry")]
EmptyMulti == Record(Geometry("MultiPolygon", <<>>), Named("EmptyMulti"))
\* a Polygon without rings extracts to one polygon with no ring
EmptyPolygon == Record(Geometry("Polygon", <<>>), Named("EmptyPolygon"))
\* coordinates float() rejects
BadStr == Record(Geometry("Polygon",
                 <<<<Pt(<<0, 0>>), <<Num(10), NonNumericStr>>, Pt(<<10, 10>>)>>>>),
                 Named("BadStr"))
BadNone == Record(Geometry("MultiPolygon",
                  <<<<<<Pt(<<0, 0>>), Pt(<<10, 0>>), <<NoneComponent, Num(10)>>>>>>>>),
                  Named("BadNone"))
\* coordinates with a third component (an elevation)
ThreeD == Record(Geometry("Polygon",
                 <<<<<<Num(0), Num(0), Num(7)>>, <<Num(10), Num(0), Num(7)>>,
                     <<Num(10), Num(10), Num(7)>>>>>>),
                 Named("ThreeD"))
\* a record without the key "properties"
NoProps == [has_geometry |-> TRUE,
            geometry |-> Geometry("Polygon", RawRings(<<LowSquare>>)),
            has_properties |-> FALSE, properties |-> PyNone]

\* a record whose "properties" is null
NullProps == Record(Geometry("Polygon", RawRings(<<SouthRing>>)), PyNone)
\* the two squares of Multi, each ring closed by repeating its first point
Closed(ring) == Append(ring, ring[1])
ClosedMulti ==
    Record(Geometry("MultiPolygon",
                    <<RawRings(<<Closed(LowSquare)>>),
                      RawRings(<<Closed(HighSquare)>>)>>),
           Named("ClosedMulti"))

\* records that construction stores
Stored == <<North, South, Over, Holed, Tiny, Multi, ClosedMulti, NoProps,
            NullProps, EmptyPolygon>>
\* records that construction drops, and records that make it raise
Dropped == <<PointGeom, NoType, NoCoords, NoGeometry, EmptyMulti>>
Raising == <<BadStr, BadNone, ThreeD>>
Catalogue == Stored \o Dropped \o Raising

Picks(n) == UNION {[1..k -> 1..n] : k \in 0..MaxFeatures}

\* Query points: a grid through the vertices, edges, interiors and
\* surroundings of the catalogue's rings, the hole corner, a point of
\* HighSquare, a point beside TinyRing and a point far from every feature.
QueryX == {0, 1, 5, 10}
QueryY == {-5, 0, 1, 5}
QueryPoints ==
    (QueryX \X QueryY) \cup {<<4, 4>>, <<11, 11>>, <<2, 0>>, <<100, 100>>}

NoPoint == <<0, 0>>
NoVerdict ==
    [done |-> FALSE, in_ring |-> FALSE, in_polygon |-> FALSE,
     bbox |-> <<Inf, Inf, -Inf, -Inf>>,
     on_segment |-> FALSE, in_closed_ring |-> FALSE]

\* The threads that share one index, and a thread before its lookup.
Threads == {"t1", "t2"}
Idle == [state |-> "idle", point |-> NoPoint, i |-> 0, result |-> PyNone]
NoThreads == [t \in Threads |-> Idle]

(***************************************************************************)
(* The index: construction, then lookups.                                  *)
(***************************************************************************)
Init ==
    /\ scale \in Scales
    /\ \E pick \in Picks(Len(Stored)) :
           input = [i \in 1..Len(pick) |-> Stored[pick[i]]]
    /\ pc = "new"
    /\ features = <<>>
    /\ error = ""
    /\ query = NoPoint
    /\ result = PyNone
    /\ shape = <<>>
    /\ probe = NoPoint
    /\ verdict = NoVerdict
    /\ history = <<>>
    /\ threads = NoThreads

\* index = GeoFeatureIndex(input)
Construct ==
    /\ pc = "new"
    /\ LET built == init_loop(input, 1, <<>>)
       IN  IF built.error = ""
           THEN /\ pc' = "ready"
                /\ features' = built.features
                /\ error' = ""
           ELSE /\ pc' = "raised"
                /\ features' = <<>>
                /\ error' = built.error
    /\ UNCHANGED <<scale, input, query, result, shape, probe, verdict,
                   history, threads>>

\* index.lookup(point)
Lookup(point) ==
    /\ pc \in {"ready", "looked"}
    /\ query' = point
    /\ result' = lookup(features, point, scale)
    /\ pc' = "looked"
    /\ UNCHANGED <<scale, input, features, error, shape, probe, verdict,
                   history, threads>>

Next ==
    \/ Construct
    \/ \E point \in QueryPoints : Lookup(point)

Spec == Init /\ [][Next]_vars

(***************************************************************************)
(* One index and a recorded sequence of lookups on it.                     *)
(***************************************************************************)
\* two overlapping features, a neighbour and a feature of several polygons
Shared == <<North, Over, South, ClosedMulti>>
\* a point of the overlap, of the shared edge, of South alone and of nothing
RepeatPoints == {<<5, 5>>, <<5, 0>>, <<5, -5>>, <<100, 100>>}

RepeatInit ==
    /\ scale \in Scales
    /\ \E pick \in Picks(Len(Shared)) :
           input = [i \in 1..Len(pick) |-> Shared[pick[i]]]
    /\ pc = "new"
    /\ features = <<>>
    /\ error = ""
    /\ query = NoPoint
    /\ result = PyNone
    /\ shape = <<>>
    /\ probe = NoPoint
    /\ verdict = NoVerdict
    /\ history = <<>>
    /\ threads = NoThreads

\* index.lookup(point) that rotates self.features
Relookup_rotating(point) ==
    /\ pc \in {"ready", "looked"}
    /\ Len(history) < MaxLookups
    /\ query' = point
    /\ result' = lookup(features, point, scale)
    /\ pc' = "looked"
    /\ history' = Append(history, [point |-> point, result |-> result'])
    /\ features' = IF Len(features) = 0 THEN features
                   ELSE Append(Tail(features), Head(features))
    /\ UNCHANGED <<scale, input, error, shape, probe, verdict, threads>>

\* index.lookup(point), recorded
Relookup(point) ==
    /\ pc \in {"ready", "looked"}
    /\ Len(history) < MaxLookups
    /\ query' = point
    /\ result' = lookup(features, point, scale)
    /\ pc' = "looked"
    /\ history' = Append(history, [point |-> point, result |-> result'])
    /\ UNCHANGED <<scale, input, features, error, shape, probe, verdict,
                   threads>>

RepeatNext ==
    \/ Construct
    \/ \E point \in RepeatPoints : Relookup(point)

RepeatSpec == RepeatInit /\ [][RepeatNext]_vars

(***************************************************************************)
(* Lookups of several threads on one index.  A thread's lookup advances    *)
(* one iteration of "for feature in self.features" at a time; the steps of *)
(* the threads interleave freely.  No lookup starts before __init__ has    *)
(* returned.                                                               *)
(***************************************************************************)
ConcInit ==
    /\ scale \in Scales
    /\ \E pick \in Picks(Len(Shared)) :
           input = [i \in 1..Len(pick) |-> Shared[pick[i]]]
    /\ pc = "new"
    /\ features = <<>>
    /\ error = ""
    /\ query = NoPoint
    /\ result = PyNone
    /\ shape = <<>>
    /\ probe = NoPoint
    /\ verdict = NoVerdict
    /\ history = <<>>
    /\ threads = NoThreads

\* thread t calls index.lookup(point): x, y = point, and the loop begins
Start(t, point) ==
    /\ pc = "ready"
    /\ threads[t].state = "idle"
    /\ threads' = [threads EXCEPT ![t] =
                       [state |-> "scanning", point |-> point, i |-> 1,
                        result |-> PyNone]]
    /\ UNCHANGED <<scale, input, pc, features, error, query, result,
                   shape, probe, verdict, history>>

\* one iteration in which the position in self.features is one cursor that
\* all running lookups share
scan_step_shared_cursor(fs, th, t, s) ==
    LET me == th[t]
        advanced == [u \in DOMAIN th |->
                        IF th[u].state = "scanning"
                        THEN [th[u] EXCEPT !.i = me.i + 1]
                        ELSE th[u]]
    IN  IF me.i > Len(fs)
        THEN [th EXCEPT ![t] = [me EXCEPT !.state = "done", !.result = PyNone]]
        ELSE IF outside_bbox(me.point, fs[me.i].bbox)
        THEN advanced
        ELSE IF any_polygon(me.point, fs[me.i].polygons, 1, s)
        THEN [th EXCEPT ![t] = [me EXCEPT !.state = "done",
                                         !.result = fs[me.i].properties]]
        ELSE advanced

\* one iteration of the loop of thread t's lookup, or its end: the states
\* of the threads afterwards
scan_step(fs, th, t, s) ==
    LET me == th[t]
    IN  IF me.i > Len(fs)
        THEN [th EXCEPT ![t] = [me EXCEPT !.state = "done", !.result = PyNone]]
        ELSE IF outside_bbox(me.point, fs[me.i].bbox)
        THEN [th EXCEPT ![t] = [me EXCEPT !.i = me.i + 1]]
        ELSE IF any_polygon(me.point, fs[me.i].polygons, 1, s)
        THEN [th EXCEPT ![t] = [me EXCEPT !.state = "done",
                                         !.result = fs[me.i].properties]]
        ELSE [th EXCEPT ![t] = [me EXCEPT !.i = me.i + 1]]

Step(t) ==
    /\ threads[t].state = "scanning"
    /\ threads' = scan_step(features, threads, t, scale)
    /\ UNCHANGED <<scale, input, pc, features, error, query, result,
                   shape, probe, verdict, history>>

ConcNext ==
    \/ Construct
    \/ \E t \in Threads, point \in RepeatPoints : Start(t, point)
    \/ \E t \in Threads : Step(t)

ConcSpec == ConcInit /\ [][ConcNext]_vars

(***************************************************************************)
(* Construction alone, on every kind of record.                            *)
(***************************************************************************)
BuildInit ==
    /\ scale \in Scales
    /\ \E pick \in Picks(Len(Catalogue)) :
           input = [i \in 1..Len(pick) |-> Catalogue[pick[i]]]
    /\ pc = "new"
    /\ features = <<>>
    /\ error = ""
    /\ query = NoPoint
    /\ result = PyNone
    /\ shape = <<>>
    /\ probe = NoPoint
    /\ verdict = NoVerdict
    /\ history = <<>>
    /\ threads = NoThreads

BuildNext == Construct

BuildSpec == BuildInit /\ [][BuildNext]_vars

(***************************************************************************)
(* The geometry primitives applied to one polygon and one point.           *)
(***************************************************************************)
Grid == (0..GridMax) \X (0..GridMax)
Triangles == {<<a, b, c>> : a \in Grid, b \in Grid, c \in Grid}

SpecSquare == Square(0, 0, 4, 4)
\* a concave ring and a self-crossing ring
LRing == <<<<0, 0>>, <<4, 0>>, <<4, 2>>, <<2, 2>>, <<2, 4>>, <<0, 4>>>>
BowTie == <<<<0, 0>>, <<4, 4>>, <<4, 0>>, <<0, 4>>>>

\* rings of 0, 1 and 2 points
ShortRings ==
    {<<>>} \cup {<<a>> : a \in Grid} \cup {<<a, b>> : a \in Grid, b \in Grid}

Shapes ==
    {<<t>> : t \in Triangles}
    \cup {<<r>> : r \in ShortRings}
    \cup {<<r, TinyRing>> : r \in ShortRings}
    \cup {<<SpecSquare>>, <<Closed(SpecSquare)>>, <<TinyRing>>, <<LRing>>,
          <<BowTie>>,
          <<NorthRing, HoleRing>>,
          <<NorthRing, HoleRing, Square(1, 1, 2, 2)>>,
          <<SpecSquare, Square(0, 1, 2, 3)>>,
          <<>>}

\* Points up to one grid step around the polygon's vertices.
ProbePoints(polygon) ==
    LET box == polygon_bbox(<<polygon>>)
    IN  IF box[1] > box[3] THEN (-1..1) \X (-1..1)
        ELSE ((box[1] - 1)..(box[3] + 1)) \X ((box[2] - 1)..(box[4] + 1))

GeoInit ==
    /\ scale \in Scales
    /\ shape \in Shapes
    /\ probe \in ProbePoints(shape)
    /\ verdict = NoVerdict
    /\ input = <<>>
    /\ pc = "primitives"
    /\ features = <<>>
    /\ error = ""
    /\ query = NoPoint
    /\ result = PyNone
    /\ history = <<>>
    /\ threads = NoThreads

\* the segment from the first point of the outer ring to the next one (the
\* first point again in a ring of one point)
HasSegment(polygon) == Len(polygon) > 0 /\ Len(polygon[1]) > 0
SegmentOf(polygon) ==
    <<polygon[1][1], polygon[1][(1 % Len(polygon[1])) + 1]>>

\* _point_in_ring(probe, shape[0]), point_in_polygon(probe, shape),
\* polygon_bbox([shape]), _point_on_segment(probe, a, b) for the segment of
\* shape, and _point_in_ring(probe, shape[0] + [shape[0][0]])
Test ==
    /\ pc = "primitives"
    /\ ~verdict.done
    /\ verdict' =
           [done |-> TRUE,
            in_ring |-> IF Len(shape) = 0 THEN FALSE
                        ELSE _point_in_ring(probe, shape[1], scale),
            in_polygon |-> point_in_polygon(probe, shape, scale),
            bbox |-> polygon_bbox(<<shape>>),
            on_segment |-> IF ~HasSegment(shape) THEN FALSE
                           ELSE _point_on_segment(probe, SegmentOf(shape)[1],
                                                  SegmentOf(shape)[2], scale),
            in_closed_ring |-> IF ~HasSegment(shape) THEN FALSE
                               ELSE _point_in_ring(probe, Closed(shape[1]),
                                                   scale)]
    /\ UNCHANGED <<scale, input, pc, features, error, query, result,
                   shape, probe, history, threads>>

GeoNext == Test

GeoSpec == GeoInit /\ [][GeoNext]_vars

(***************************************************************************)
(* Geometry of the plane, for stating the properties: exact membership of  *)
(* a segment, and even-odd containment by a ray towards +y.                *)
(***************************************************************************)
Edges(ring) == {<<ring[i], ring[(i % Len(ring)) + 1]>> : i \in 1..Len(ring)}

OnSegmentExact(point, a, b) ==
    LET cross == (point[1] - a[1]) * (b[2] - a[2])
                 - (point[2] - a[2]) * (b[1] - a[1])
    IN  /\ cross = 0
        /\ Min(a[1], b[1]) <= point[1] /\ point[1] <= Max(a[1], b[1])
        /\ Min(a[2], b[2]) <= point[2] /\ point[2] <= Max(a[2], b[2])

OnBoundary(point, ring) ==
    \E e \in Edges(ring) : OnSegmentExact(point, e[1], e[2])

\* the edge from a to b passes strictly above point
CrossesAbove(point, a, b) ==
    /\ (a[1] > point[1]) # (b[1] > point[1])
    /\ LET lhs == (point[2] - a[2]) * (b[1] - a[1])
           rhs == (point[1] - a[1]) * (b[2] - a[2])
       IN  IF b[1] > a[1] THEN lhs < rhs ELSE lhs > rhs

EnclosedBy(point, ring) ==
    Cardinality({i \in 1..Len(ring) :
                    CrossesAbove(point, ring[i], ring[(i % Len(ring)) + 1])})
        % 2 = 1

\* within the tolerance of _point_on_segment of some edge
NearBoundary(point, ring, s) ==
    \E e \in Edges(ring) : _point_on_segment(point, e[1], e[2], s)

(***************************************************************************)
(* Properties of the index.                                                *)
(***************************************************************************)
InBox(point, bbox) ==
    /\ bbox[1] <= point[1] /\ point[1] <= bbox[3]
    /\ bbox[2] <= point[2] /\ point[2] <= bbox[4]

\* stored feature f has a box that includes point and a polygon for which
\* point_in_polygon is true
Holds(f, point) ==
    /\ InBox(point, f.bbox)
    /\ \E j \in 1..Len(f.polygons) : point_in_polygon(point, f.polygons[j], scale)

Holders(point) == {i \in 1..Len(features) : Holds(features[i], point)}

First(S) == CHOOSE i \in S : \A k \in S : i <= k

\* C1: lookup returns the attributes of the earliest stored feature whose
\* bounding box includes the point and one of whose polygons contains it
\* (None when there is none), whatever lookups came before; of two
\* overlapping features stored as A then B, A's attributes are returned.
C1_FirstMatchWins ==
    pc = "looked" =>
        IF Holders(query) = {} THEN result = PyNone
        ELSE /\ result = features[First(Holders(query))].properties
             /\ \A i \in 1..Len(features) :
                    i < First(Holders(query)) => ~Holds(features[i], query)

\* a point in the overlap of two stored features with different attributes
C1_Witness ==
    /\ pc = "looked"
    /\ Len(features) = 2
    /\ Holders(query) = {1, 2}
    /\ features[1].properties # features[2].properties
    /\ result = features[1].properties

(***************************************************************************)
(* Properties of the geometry primitives.                                  *)
(***************************************************************************)
\* C2: every point that point_in_polygon reports inside a polygon lies
\* within polygon_bbox of that polygon, so the box test of lookup rejects
\* no point a polygon contains.
C2_BboxKeepsEveryInsidePoint ==
    (verdict.done /\ verdict.in_polygon) => InBox(probe, verdict.bbox)

\* C3: for a ring of at least 3 points, a point on a vertex or an edge and
\* a point enclosed by the ring test inside, and every other point tests
\* outside.
C3_RingInsideAndOutside ==
    (verdict.done /\ Len(shape) > 0 /\ Len(shape[1]) >= 3) =>
        verdict.in_ring =
            (OnBoundary(probe, shape[1]) \/ EnclosedBy(probe, shape[1]))

HoleIndexes(polygon) == 2..Len(polygon)

\* C4: point_in_polygon is true exactly when the polygon has a ring, the
\* point is in ring 0 and in none of the rings after it; a point on the
\* boundary of a hole is outside the polygon, a point on the outer boundary
\* and in no hole is inside it.
C4_OuterMinusHoles ==
    verdict.done =>
        /\ verdict.in_polygon =
              (/\ Len(shape) >= 1
               /\ _point_in_ring(probe, shape[1], scale)
               /\ \A h \in HoleIndexes(shape) :
                      ~_point_in_ring(probe, shape[h], scale))
        /\ \A h \in HoleIndexes(shape) :
               (Len(shape[h]) >= 3 /\ OnBoundary(probe, shape[h]))
                   => ~verdict.in_polygon
        /\ (/\ Len(shape) >= 1
            /\ Len(shape[1]) >= 3
            /\ OnBoundary(probe, shape[1])
            /\ \A h \in HoleIndexes(shape) :
                   ~_point_in_ring(probe, shape[h], scale))
               => verdict.in_polygon

\* a point on the boundary of a hole, inside the outer ring and outside
\* the polygon
C4_Witness ==
    /\ verdict.done
    /\ Len(shape) = 2
    /\ verdict.in_ring
    /\ ~OnBoundary(probe, shape[1])
    /\ OnBoundary(probe, shape[2])
    /\ ~verdict.in_polygon

\* point lies on an edge of the outer ring of a polygon of f, and in no
\* hole of that polygon
OnOuterEdge(point, f) ==
    \E j \in 1..Len(f.polygons) :
        /\ Len(f.polygons[j]) >= 1
        /\ Len(f.polygons[j][1]) >= 3
        /\ OnBoundary(point, f.polygons[j][1])
        /\ \A h \in HoleIndexes(f.polygons[j]) :
               ~(OnBoundary(point, f.polygons[j][h])
                 \/ EnclosedBy(point, f.polygons[j][h]))

\* C5: a point exactly on an edge of two stored features is matched, never
\* answered with None, and resolves to the feature stored first (when no
\* feature stored before it holds the point).
C5_SharedEdgeGoesToFirst ==
    pc = "looked" =>
        \A i \in 1..Len(features) : \A j \in 1..Len(features) :
            (i < j /\ OnOuterEdge(query, features[i])
                   /\ OnOuterEdge(query, features[j]))
                => /\ result # PyNone
                   /\ (\A k \in 1..(i - 1) : ~Holds(features[k], query))
                          => result = features[i].properties

\* geometric containment: on or enclosed by ring 0, on or enclosed by no
\* later ring
Contains(polygon, point) ==
    /\ Len(polygon) >= 1
    /\ Len(polygon[1]) >= 3
    /\ OnBoundary(point, polygon[1]) \/ EnclosedBy(point, polygon[1])
    /\ \A h \in HoleIndexes(polygon) :
           ~(Len(polygon[h]) >= 3
             /\ (OnBoundary(point, polygon[h]) \/ EnclosedBy(point, polygon[h])))

\* C6: an index of one feature with several polygons returns the feature's
\* attributes exactly for the points that one of its polygons contains.
C6_UnionOfPolygons ==
    (pc = "looked" /\ Len(features) = 1 /\ Len(features[1].polygons) >= 2) =>
        (result = features[1].properties) =
            (\E j \in 1..Len(features[1].polygons) :
                 Contains(features[1].polygons[j], query))

(***************************************************************************)
(* Properties of construction.                                             *)
(***************************************************************************)
GeometryOf(record) ==
    IF record.has_geometry THEN record.geometry ELSE EmptyGeometry

\* the geometry is absent, or has no type, no coordinates, or a type other
\* than Polygon and MultiPolygon
Unsupported(record) ==
    LET g == GeometryOf(record)
    IN  \/ ~g.has_type
        \/ ~g.has_coordinates
        \/ g.type \notin {"Polygon", "MultiPolygon"}

\* the [x, y] entries of a Polygon or MultiPolygon geometry
Entries(g) ==
    IF g.type = "Polygon"
    THEN {g.coordinates[j][k] :
              <<j, k>> \in {<<j, k>> \in (1..Len(g.coordinates)) \X (1..12) :
                               k <= Len(g.coordinates[j])}}
    ELSE UNION {{g.coordinates[i][j][k] :
                    <<j, k>> \in {<<j, k>> \in (1..Len(g.coordinates[i])) \X (1..12) :
                                     k <= Len(g.coordinates[i][j])}} :
                i \in 1..Len(g.coordinates)}

\* a Polygon or MultiPolygon geometry with a coordinate value that is not
\* a number
NonNumeric(record) ==
    /\ ~Unsupported(record)
    /\ \E e \in Entries(GeometryOf(record)) :
           \E c \in 1..Len(e) : e[c][1] # "num"

\* a Polygon or MultiPolygon geometry with an entry that does not unpack
\* into two numbers
Unconvertible(record) ==
    /\ ~Unsupported(record)
    /\ \E e \in Entries(GeometryOf(record)) :
           Len(e) # 2 \/ \E c \in 1..Len(e) : e[c][1] # "num"

\* a MultiPolygon geometry without polygons
NoPolygon(record) ==
    /\ ~Unsupported(record)
    /\ GeometryOf(record).type = "MultiPolygon"
    /\ Len(GeometryOf(record).coordinates) = 0

PolygonsOf(record) == extract_polygons(GeometryOf(record)).value

\* records with at least one polygon, and the position of record i among
\* them
Kept == {i \in 1..Len(input) : Len(PolygonsOf(input[i])) >= 1}
Rank(i) == Cardinality({k \in Kept : k <= i})

AllPoints(polygons) ==
    UNION {UNION {{polygons[i][j][k] : k \in 1..Len(polygons[i][j])} :
                  j \in 1..Len(polygons[i])} :
           i \in 1..Len(polygons)}

\* the least box around all points of all rings of all polygons
BoxAround(polygons) ==
    LET P == AllPoints(polygons)
    IN  IF P = {} THEN <<Inf, Inf, -Inf, -Inf>>
        ELSE <<CHOOSE v \in {q[1] : q \in P} : \A q \in P : v <= q[1],
               CHOOSE v \in {q[2] : q \in P} : \A q \in P : v <= q[2],
               CHOOSE v \in {q[1] : q \in P} : \A q \in P : v >= q[1],
               CHOOSE v \in {q[2] : q \in P} : \A q \in P : v >= q[2]>>

C8_UnsupportedGeometryIsSkipped ==
    pc # "new" =>
        /\ \A i \in 1..Len(input) :
               Unsupported(input[i]) =>
                   extract_polygons(GeometryOf(input[i]))
                       = [error |-> "", value |-> <<>>]
        /\ (\A i \in 1..Len(input) : ~Unconvertible(input[i])) =>
               /\ pc = "ready"
               /\ error = ""
               /\ \A i \in 1..Len(input) : Unsupported(input[i]) => i \notin Kept
               /\ Len(features) = Cardinality(Kept)
               /\ \A i \in Kept :
                      features[Rank(i)].polygons = PolygonsOf(input[i])

\* a record with a Point geometry left out, the record after it stored
C8_Witness ==
    /\ pc = "ready"
    /\ Len(input) = 2
    /\ GeometryOf(input[1]).has_type
    /\ GeometryOf(input[1]).type = "Point"
    /\ Kept = {2}
    /\ Len(features) = 1

Bad(record) ==
    Unsupported(record) \/ NoPolygon(record) \/ Unconvertible(record)
BadOnes == {i \in 1..Len(input) : Bad(input[i])}

\* C9: when one record of the input is bad, construction completes, skips
\* that record and stores the others.
C9_OneBadRecordNeverAborts ==
    (pc # "new" /\ Cardinality(BadOnes) = 1) =>
        /\ pc = "ready"
        /\ BadOnes \cap Kept = {}
        /\ Len(features) = Len(input) - 1

\* C9 amended: one bad record whose geometry is absent, unsupported or
\* without polygons is skipped and the others are stored; one bad record
\* with a coordinate entry that does not convert makes construction
\* raise, and no index exists.
C9_OneUnsupportedRecordNeverAborts ==
    (pc # "new" /\ Cardinality(BadOnes) = 1) =>
        LET b == CHOOSE i \in BadOnes : TRUE
        IN  IF Unsupported(input[b]) \/ NoPolygon(input[b])
            THEN /\ pc = "ready"
                 /\ b \notin Kept
                 /\ Len(features) = Len(input) - 1
                 /\ \A i \in Kept :
                        features[Rank(i)].polygons = PolygonsOf(input[i])
            ELSE /\ pc = "raised"
                 /\ features = <<>>

\* an unsupported record skipped after a stored one
C9_Witness ==
    /\ pc = "ready"
    /\ Len(input) = 2
    /\ BadOnes = {2}
    /\ Unsupported(input[2])
    /\ Len(features) = 1

\* C10: a non-numeric coordinate in a Polygon or MultiPolygon makes
\* extract_polygons fail with ValueError or TypeError, and construction
\* ends with that error instead of skipping the record.
C10_NonNumericCoordinateRaises ==
    pc # "new" =>
        /\ \A i \in 1..Len(input) :
               NonNumeric(input[i]) =>
                   extract_polygons(GeometryOf(input[i])).error
                       \in {"ValueError", "TypeError"}
        /\ (\E i \in 1..Len(input) : NonNumeric(input[i])) =>
               /\ pc = "raised"
               /\ error \in {"ValueError", "TypeError"}
               /\ \A i \in 1..Len(input) :
                      (/\ NonNumeric(input[i])
                       /\ \A k \in 1..(i - 1) : ~Unconvertible(input[k]))
                          => error = extract_polygons(GeometryOf(input[i])).error

\* a numeric record, then a record with a non-numeric coordinate:
\* construction raised
C10_Witness ==
    /\ pc = "raised"
    /\ Len(input) = 2
    /\ ~Bad(input[1])
    /\ NonNumeric(input[2])
    /\ error # ""

\* the points (x, y) of the first two components of the entries of a ring,
\* of the rings of a polygon, and of the polygons of a geometry
FirstTwo(ring) == [k \in 1..Len(ring) |-> <<ring[k][1][2], ring[k][2][2]>>]
RingsOf(rings) == [j \in 1..Len(rings) |-> FirstTwo(rings[j])]
PolygonsIn(g) ==
    IF g.type = "Polygon" THEN <<RingsOf(g.coordinates)>>
    ELSE [i \in 1..Len(g.coordinates) |-> RingsOf(g.coordinates[i])]

\* a Polygon or MultiPolygon geometry of numbers with an entry of more
\* than two components
ExtraDimensions(record) ==
    /\ ~Unsupported(record)
    /\ \A e \in Entries(GeometryOf(record)) :
           Len(e) >= 2 /\ \A c \in 1..Len(e) : e[c][1] = "num"
    /\ \E e \in Entries(GeometryOf(record)) : Len(e) > 2

\* C11: for a Polygon or MultiPolygon whose entries have more than two
\* components extract_polygons succeeds and yields the points of the first
\* two components.
C11_ExtraDimensionsAreIgnored ==
    pc # "new" =>
        \A i \in 1..Len(input) :
            ExtraDimensions(input[i]) =>
                extract_polygons(GeometryOf(input[i]))
                    = [error |-> "", value |-> PolygonsIn(GeometryOf(input[i]))]

\* C12: a ring of 0, 1 or 2 points contains no query point, and a polygon
\* with no rings or with an outer ring of fewer than 3 points contains no
\* query point; the primitives return a value in each of these cases.
C12_DegenerateNeverMatches ==
    verdict.done =>
        /\ (Len(shape) > 0 /\ Len(shape[1]) < 3) => ~verdict.in_ring
        /\ (Len(shape) = 0 \/ Len(shape[1]) < 3) =>
               ~verdict.in_polygon

\* a two-point outer ring probed at a point of its segment, and the polygon
\* without rings
C12_Witness ==
    /\ verdict.done
    /\ Len(shape) > 0
    /\ Len(shape[1]) = 2
    /\ shape[1][1] # shape[1][2]
    /\ OnSegmentExact(probe, shape[1][1], shape[1][2])
    /\ ~verdict.in_ring
    /\ ~verdict.in_polygon

\* C13: a lookup that no stored feature matches (none has a box including
\* the point together with a polygon for which point_in_polygon is true),
\* the empty index included, completes and returns None; nothing is raised.
C13_MissReturnsNone ==
    (pc = "looked" /\ Holders(query) = {}) =>
        /\ result = PyNone
        /\ error = ""

\* a miss on a non-empty index at a point inside a stored feature's box
C13_Witness ==
    /\ pc = "looked"
    /\ Len(features) >= 1
    /\ \E i \in 1..Len(features) : InBox(query, features[i].bbox)
    /\ Holders(query) = {}
    /\ result = PyNone

\* the index as __init__ built it from the input
Built == init_loop(input, 1, <<>>).features

\* C14: after construction, whatever lookups are made, self.features stays
\* the list that __init__ built (same features in the same order, with the
\* same boxes, polygons and attributes), and any two lookups of one point
\* return the same value, whatever lookups were made before or between them.
C14_LookupIsReadOnlyAndIdempotent ==
    pc \in {"ready", "looked"} =>
        /\ features = Built
        /\ \A i, j \in 1..Len(history) :
               history[i].point = history[j].point =>
                   history[i].result = history[j].result

\* a point of two overlapping features looked up, then another point that
\* a different feature matches, then the first point again
C14_Witness ==
    /\ pc = "looked"
    /\ Len(history) = 3
    /\ history[1].point = history[3].point
    /\ history[2].point # history[1].point
    /\ history[1].result # PyNone
    /\ history[2].result \notin {PyNone, history[1].result}
    /\ Cardinality(Holders(history[1].point)) = 2

\* C15: with lookups of several threads interleaved step by step on the one
\* index, and no lock taken, the index stays as built and every lookup that
\* has returned gave what lookup gives for its point when run alone.
C15_ConcurrentLookupsAgreeWithSolo ==
    pc = "ready" =>
        /\ features = Built
        /\ \A t \in Threads :
               threads[t].state = "done" =>
                   threads[t].result = lookup(Built, threads[t].point, scale)

\* one lookup has returned a match of the second feature while another
\* thread's lookup of a different point is past the first feature
C15_Witness ==
    /\ pc = "ready"
    /\ Len(features) = 2
    /\ \E t, u \in Threads :
           /\ threads[t].state = "done"
           /\ threads[t].result = features[2].properties
           /\ features[1].properties # features[2].properties
           /\ threads[u].state = "scanning"
           /\ threads[u].i = 2
           /\ threads[u].point # threads[t].point

(***************************************************************************)
(* Properties of the segment and ring tests.                               *)
(***************************************************************************)
\* the cross product of (point - a) and (b - a) within epsilon and their
\* dot product in [0, |b - a|^2]
WithinTolerance(point, a, b, s) ==
    LET cross == (point[1] - a[1]) * (b[2] - a[2])
                 - (point[2] - a[2]) * (b[1] - a[1])
        dot == (point[1] - a[1]) * (b[1] - a[1])
               + (point[2] - a[2]) * (b[2] - a[2])
        squared_len == (b[1] - a[1]) * (b[1] - a[1])
                       + (b[2] - a[2]) * (b[2] - a[2])
    IN  Abs(cross) <= CrossTol(s) /\ 0 <= dot /\ dot <= squared_len

\* C16: _point_on_segment is true exactly for the points whose cross
\* product with the segment is within epsilon and whose dot product is in
\* [0, |b - a|^2]; on a segment of zero length, a = b, it is true for the
\* point a only.
C16_OnSegmentWithinTolerance ==
    (verdict.done /\ HasSegment(shape)) =>
        LET a == SegmentOf(shape)[1]
            b == SegmentOf(shape)[2]
        IN  /\ verdict.on_segment = WithinTolerance(probe, a, b, scale)
            /\ a = b => (verdict.on_segment = (probe = a))

DistinctPoints(ring) == {ring[k] : k \in 1..Len(ring)}

\* C17: for a ring of at least 3 distinct points, _point_in_ring answers
\* the same for the ring as written and for the ring with its first point
\* repeated as its last point.
C17_ClosingPointChangesNothing ==
    (verdict.done /\ HasSegment(shape)
     /\ Cardinality(DistinctPoints(shape[1])) >= 3) =>
        verdict.in_closed_ring = verdict.in_ring

\* on the segment as the test is specified: within the tolerance, and on a
\* segment of zero length the point a only
OnEdgeAsSpecified(point, a, b, s) ==
    IF a = b THEN point = a ELSE WithinTolerance(point, a, b, s)

\* exactly one endpoint of the edge from a to b has y strictly greater than
\* the point's y, and the point's x is left of the edge's intersection
\* x1 + (x2 - x1) * (y - y1) / (y2 - y1) with the point's horizontal line
Crosses(point, a, b) ==
    /\ (a[2] > point[2]) # (b[2] > point[2])
    /\ LET lhs == (point[1] - a[1]) * (b[2] - a[2])
           rhs == (b[1] - a[1]) * (point[2] - a[2])
       IN  IF b[2] > a[2] THEN lhs < rhs ELSE lhs > rhs

CrossingEdges(point, ring) ==
    {i \in 1..Len(ring) : Crosses(point, ring[i], ring[(i % Len(ring)) + 1])}

\* C18: for a ring of at least 3 points and a point on none of its edges,
\* _point_in_ring is true exactly when the number of crossing edges (last
\* to first included) is odd, which is when the ring encloses the point.
C18_RayCastingParity ==
    (/\ verdict.done
     /\ Len(shape) > 0
     /\ Len(shape[1]) >= 3
     /\ \A i \in 1..Len(shape[1]) :
            ~OnEdgeAsSpecified(probe, shape[1][i],
                               shape[1][(i % Len(shape[1])) + 1], scale)) =>
        /\ verdict.in_ring = (Cardinality(CrossingEdges(probe, shape[1])) % 2 = 1)
        /\ verdict.in_ring = EnclosedBy(probe, shape[1])

(***************************************************************************)
(* Properties of the boxes and of extraction.                              *)
(***************************************************************************)
\* C19: the box of a stored feature with at least one point has min <= max
\* on both axes, holds every point of every ring of every polygon of the
\* feature and touches a point on each of its four sides; the box of a
\* feature without points is (+inf, +inf, -inf, -inf), the box test of
\* lookup rejects every query point against it, and no lookup returns that
\* feature's attributes.
C19_BboxIsTheLeastBox ==
    \A i \in 1..Len(features) :
        LET box == features[i].bbox
            P == AllPoints(features[i].polygons)
        IN  IF P # {}
            THEN /\ box[1] <= box[3]
                 /\ box[2] <= box[4]
                 /\ \A q \in P : InBox(q, box)
                 /\ \E q \in P : q[1] = box[1]
                 /\ \E q \in P : q[2] = box[2]
                 /\ \E q \in P : q[1] = box[3]
                 /\ \E q \in P : q[2] = box[4]
            ELSE /\ box = <<Inf, Inf, -Inf, -Inf>>
                 /\ \A point \in QueryPoints : outside_bbox(point, box)
                 /\ pc = "looked" => result # features[i].properties

\* a feature without points stored before a feature of two polygons whose
\* box has each polygon on two of its sides, and a lookup that the second
\* feature matches
C19_Witness ==
    /\ pc = "looked"
    /\ Len(features) = 2
    /\ AllPoints(features[1].polygons) = {}
    /\ Len(features[2].polygons) = 2
    /\ features[2].bbox # polygon_bbox(<<features[2].polygons[1]>>)
    /\ features[2].bbox # polygon_bbox(<<features[2].polygons[2]>>)
    /\ result = features[2].properties

\* Polygon or MultiPolygon coordinates whose entries are pairs of numbers
Convertible(record) == ~Unsupported(record) /\ ~Unconvertible(record)

\* C20: from a Polygon whose entries are pairs of numbers extract_polygons
\* returns one polygon with the rings of coordinates in their order and the
\* points of each ring in their order; from such a MultiPolygon one polygon
\* per element of coordinates, in order, each with its rings and points in
\* order; construction stores them so, ring 0 first.
C20_ExtractionKeepsOrder ==
    /\ \A i \in 1..Len(input) :
           Convertible(input[i]) =>
               /\ extract_polygons(GeometryOf(input[i])).error = ""
               /\ PolygonsOf(input[i]) = PolygonsIn(GeometryOf(input[i]))
               /\ GeometryOf(input[i]).type = "Polygon" =>
                      Len(PolygonsOf(input[i])) = 1
               /\ GeometryOf(input[i]).type = "MultiPolygon" =>
                      Len(PolygonsOf(input[i]))
                          = Len(GeometryOf(input[i]).coordinates)
    /\ pc = "ready" =>
           \A i \in Kept :
               features[Rank(i)].polygons = PolygonsIn(GeometryOf(input[i]))

\* a polygon with a hole and a feature of two different polygons, stored
\* with the outer ring first and the polygons in the order of the input
C20_Witness ==
    /\ pc = "ready"
    /\ Len(features) = 2
    /\ Len(features[1].polygons) = 1
    /\ Len(features[1].polygons[1]) = 2
    /\ features[1].polygons[1][1] # features[1].polygons[1][2]
    /\ features[1].polygons[1][1] = FirstTwo(GeometryOf(input[1]).coordinates[1])
    /\ Len(features[2].polygons) = 2
    /\ features[2].polygons[1] # features[2].polygons[2]
    /\ features[2].polygons[2] = RingsOf(GeometryOf(input[2]).coordinates[2])

(***************************************************************************)
(* The caller enrich_vendors of scripts/build_tx_efa_workbook.py.          *)
(***************************************************************************)
\* "if not props": the layer is counted as missing for None and for an
\* empty mapping
counted_missing(props) == props = PyNone \/ props.items = {}

\* C21: a lookup whose point a stored feature matches returns a mapping,
\* never None, whatever the "properties" of the matched record (null or
\* empty included), and the caller does not count the layer as missing.
C21_MatchIsNeverAbsence ==
    (pc = "looked" /\ Holders(query) # {}) =>
        /\ result # PyNone
        /\ ~counted_missing(result)

====
